---- MODULE Spec2Model ----
(***************************************************************************)
(* A model of the CourseScheduler timetable engine (src/scheduler.py):     *)
(* the time grid builder, the three resource ledgers, the randomized       *)
(* greedy assignment engine and the conflict audit of generate_schedule.   *)
(*                                                                         *)
(* Strings "HH:MM-HH:MM" are modelled as <<HH, MM, HH, MM>>, the four       *)
(* numbers the f-string prints; a description f-string is modelled as the  *)
(* tuple of the values it interpolates.  random.shuffle is modelled as the *)
(* choice of any permutation of the shuffled list.                         *)
(***************************************************************************)
EXTENDS Integers, Sequences, FiniteSets, TLC

VARIABLES
    teachers,          \* self.teachers: sequence of teacher names
    rooms,             \* self.rooms: sequence of [name, capacity]
    classes,           \* self.classes: sequence of [name, size]
    courses,           \* self.courses: sequence of [name, teacher, class, frequency]
    start_minutes,     \* self.start_time, in minutes since midnight
    end_minutes,       \* self.end_time, in minutes since midnight
    period_length,     \* self.period_length
    break_length,      \* self.break_length
    lunch_period,      \* self.lunch_period
    lunch_duration,    \* self.lunch_duration
    time_slots,        \* self.time_slots (the list under construction in the grid loop)
    current_minutes,   \* _generate_time_slots: current_minutes
    period_counter,    \* _generate_time_slots: period_counter
    class_schedule,    \* self.class_schedule[class][day][time]
    teacher_schedule,  \* self.teacher_schedule[teacher][day][time]
    room_schedule,     \* self.room_schedule[room][day][time]
    pc,                \* position of the run
    sorted_courses,    \* generate_schedule: sorted_courses
    course_index,      \* index in sorted_courses of the course of the outer loop
    session_index,     \* number of iterations of `for _ in range(required_sessions)` done
    assigned_days,     \* generate_schedule: assigned_days
    course_sessions,   \* generate_schedule: course_sessions
    conflicts,         \* generate_schedule: conflicts
    schedule,          \* generate_schedule: schedule
    calls,             \* number of generate_schedule calls started on the instance
    suspended,         \* the attributes and locals of the instance that is not running
    teachers_data,     \* st.session_state.teachers_data
    rooms_data,        \* st.session_state.rooms_data
    classes_data,      \* st.session_state.classes_data
    courses_data       \* st.session_state.courses_data

vars == <<teachers, rooms, classes, courses, start_minutes, end_minutes,
          period_length, break_length, lunch_period, lunch_duration,
          time_slots, current_minutes, period_counter,
          class_schedule, teacher_schedule, room_schedule, pc,
          sorted_courses, course_index, session_index, assigned_days,
          course_sessions, conflicts, schedule, calls, suspended,
          teachers_data, rooms_data, classes_data, courses_data>>

inputVars == <<teachers, rooms, classes, courses>>
gridVars == <<start_minutes, end_minutes, period_length, break_length,
              lunch_period, lunch_duration>>
loopVars == <<time_slots, current_minutes, period_counter>>
ledgerVars == <<class_schedule, teacher_schedule, room_schedule>>
runVars == <<sorted_courses, course_index, session_index, assigned_days,
             course_sessions, conflicts, schedule>>
storeVars == <<teachers_data, rooms_data, classes_data, courses_data>>

(***************************************************************************)
(* Generic helpers on sequences.                                           *)
(***************************************************************************)
Range(s) == {s[i] : i \in DOMAIN s}

\* The permutations of a sequence: the outcomes of random.shuffle on a copy.
Perms(s) ==
    {[i \in DOMAIN s |-> s[f[i]]] :
        f \in {g \in [DOMAIN s -> DOMAIN s] : \A i, j \in DOMAIN s : g[i] = g[j] => i = j}}

(***************************************************************************)
(* Time Grid Builder: _generate_time_slots.                                *)
(***************************************************************************)
MinutesPerHour == 60
LunchCounter3 == 3
LunchCounter4 == 4

\* The label with the hour of the end taken from the start of the period.
FormatSlotStartHour(a, b) ==
    <<a \div MinutesPerHour, a % MinutesPerHour, a \div MinutesPerHour, b % MinutesPerHour>>

\* f"{a // 60:02d}:{a % 60:02d}-{b // 60:02d}:{b % 60:02d}"
FormatSlot(a, b) ==
    <<a \div MinutesPerHour, a % MinutesPerHour, b \div MinutesPerHour, b % MinutesPerHour>>

\* Reading a slot label back: the minute of day of its start and of its end.
SlotStart(slot) == slot[1] * MinutesPerHour + slot[2]
SlotEnd(slot) == slot[3] * MinutesPerHour + slot[4]

\* The guard of the while loop.
SlotFits(cur) == cur + period_length <= end_minutes

\* The lunch test of the loop body.
IsLunchPeriod(counter) ==
    \/ lunch_period = "After period 3" /\ counter = LunchCounter3
    \/ lunch_period = "After period 4" /\ counter = LunchCounter4

\* The cursor when lunch is added to the break instead of replacing it.
NextCurrentLunchAndBreak(cur, counter) ==
    LET period_end == cur + period_length
    IN  IF IsLunchPeriod(counter) THEN period_end + lunch_duration + break_length
        ELSE period_end + break_length

\* NextCurrent without lines 84-93: the cursor never advances.
NextCurrentStuck(cur, counter) == cur

\* The cursor after one iteration of the loop body.
NextCurrent(cur, counter) ==
    LET period_end == cur + period_length
    IN  IF IsLunchPeriod(counter) THEN period_end + lunch_duration
        ELSE period_end + break_length

\* One iteration of the loop body on the loop state.
TimeSlotBody(st) ==
    [time_slots |-> Append(st.time_slots,
                           FormatSlot(st.current_minutes, st.current_minutes + period_length)),
     current_minutes |-> NextCurrent(st.current_minutes, st.period_counter),
     period_counter |-> st.period_counter + 1]

\* The whole loop, from a loop state to the loop state at exit.
RECURSIVE TimeSlotLoop(_)
TimeSlotLoop(st) ==
    IF SlotFits(st.current_minutes) THEN TimeSlotLoop(TimeSlotBody(st)) ELSE st

\* _generate_time_slots for the given start, as the loop state at return.
GenerateTimeSlots(start) ==
    TimeSlotLoop([time_slots |-> <<>>, current_minutes |-> start, period_counter |-> 1])

(***************************************************************************)
(* Resource ledgers: the three dictionaries built by __init__.             *)
(***************************************************************************)
\* self.days
Days == <<"Monday", "Tuesday", "Wednesday", "Thursday", "Friday">>

\* Python's None in a ledger cell.
None == [course |-> "None", teacher |-> "None", room |-> "None",
         class |-> "None", day |-> "None", time |-> <<>>]

\* The value None returned by _find_available_room.
NoRoom == "None"

\* {name: {day: {time: None ...}}} for the given names and slots.
EmptyLedger(names, slots) ==
    [n \in names |-> [d \in Range(Days) |-> [t \in Range(slots) |-> None]]]

\* _is_slot_available without the test of the teacher's cell.
IsSlotAvailableNoTeacherTest(class_name, teacher_name, room_name, day, time_slot) ==
    IF class_name \notin DOMAIN class_schedule THEN "KeyError"
    ELSE IF class_schedule[class_name][day][time_slot] # None THEN "False"
    ELSE IF teacher_name \notin DOMAIN teacher_schedule THEN "KeyError"
    ELSE IF room_schedule[room_name][day][time_slot] # None THEN "False"
    ELSE "True"

\* _is_slot_available; "KeyError" when a dictionary lookup names a missing key.
IsSlotAvailable(class_name, teacher_name, room_name, day, time_slot) ==
    IF class_name \notin DOMAIN class_schedule THEN "KeyError"
    ELSE IF class_schedule[class_name][day][time_slot] # None THEN "False"
    ELSE IF teacher_name \notin DOMAIN teacher_schedule THEN "KeyError"
    ELSE IF teacher_schedule[teacher_name][day][time_slot] # None THEN "False"
    ELSE IF room_schedule[room_name][day][time_slot] # None THEN "False"
    ELSE "True"

\* The assignment dictionary built by _assign_time_slot.
Assignment(course, class_name, teacher_name, room_name, day, time_slot) ==
    [course |-> course.name, teacher |-> teacher_name, room |-> room_name,
     class |-> class_name, day |-> day, time |-> time_slot]

\* _assign_time_slot without line 149: the room ledger is not written.
AssignTimeSlotNoRoomWrite(course, class_name, teacher_name, room_name, day, time_slot) ==
    LET assignment == Assignment(course, class_name, teacher_name, room_name, day, time_slot)
    IN  [class_schedule |-> [class_schedule EXCEPT ![class_name][day][time_slot] = assignment],
         teacher_schedule |-> [teacher_schedule EXCEPT ![teacher_name][day][time_slot] = assignment],
         room_schedule |-> room_schedule]

\* _assign_time_slot: the three ledgers after the three writes.
AssignTimeSlot(course, class_name, teacher_name, room_name, day, time_slot) ==
    LET assignment == Assignment(course, class_name, teacher_name, room_name, day, time_slot)
    IN  [class_schedule |-> [class_schedule EXCEPT ![class_name][day][time_slot] = assignment],
         teacher_schedule |-> [teacher_schedule EXCEPT ![teacher_name][day][time_slot] = assignment],
         room_schedule |-> [room_schedule EXCEPT ![room_name][day][time_slot] = assignment]]

\* suitable_rooms without the capacity filter.
SuitableRoomsUnfiltered(class_size) == rooms

\* suitable_rooms of _find_available_room.
SuitableRooms(class_size) ==
    LET Fits(room) == room.capacity >= class_size
    IN  SelectSeq(rooms, Fits)

\* The loop of _find_available_room over one shuffled order of the rooms.
RECURSIVE FirstFreeRoom(_, _, _)
FirstFreeRoom(shuffled, day, time_slot) ==
    IF shuffled = <<>> THEN NoRoom
    ELSE IF room_schedule[Head(shuffled).name][day][time_slot] = None
         THEN Head(shuffled).name
         ELSE FirstFreeRoom(Tail(shuffled), day, time_slot)

\* _find_available_room: the values it can return, one per outcome of the shuffle.
FindAvailableRoom(class_size, day, time_slot) ==
    {FirstFreeRoom(shuffled, day, time_slot) : shuffled \in Perms(SuitableRooms(class_size))}

\* _get_class_size
RECURSIVE ClassSizeIn(_, _)
ClassSizeIn(cls, class_name) ==
    IF cls = <<>> THEN 0
    ELSE IF Head(cls).name = class_name THEN Head(cls).size
    ELSE ClassSizeIn(Tail(cls), class_name)

GetClassSize(class_name) == ClassSizeIn(classes, class_name)

(***************************************************************************)
(* Assignment engine: the search for one session (lines 218-246).          *)
(***************************************************************************)
\* What one session attempt ends in: a commit at (day, time, room), no commit,
\* or the KeyError of a ledger lookup.
Commit(day, time_slot, room_name) ==
    [kind |-> "commit", day |-> day, time |-> time_slot, room |-> room_name]
NoCommit == [kind |-> "none", day |-> "None", time |-> <<>>, room |-> NoRoom]
Raised == [kind |-> "KeyError", day |-> "None", time |-> <<>>, room |-> NoRoom]

\* The day test that never skips a day.
SkipDayNever(day, assigned) == FALSE

\* `if day in assigned_days and len(assigned_days) < len(self.days): continue`
SkipDay(day, assigned) ==
    day \in assigned /\ Cardinality(assigned) < Len(Days)

\* `for time_slot in time_slots` over one shuffled order of the slots, on one day:
\* the set of results over the outcomes of the room shuffles.
RECURSIVE SlotLoop(_, _, _)
SlotLoop(course, day, shuffled) ==
    IF shuffled = <<>> THEN {NoCommit}
    ELSE LET time_slot == Head(shuffled)
             Step(room_name) ==
                 IF room_name = NoRoom THEN SlotLoop(course, day, Tail(shuffled))
                 ELSE LET available == IsSlotAvailable(course.class, course.teacher,
                                                       room_name, day, time_slot)
                      IN  IF available = "True" THEN {Commit(day, time_slot, room_name)}
                          ELSE IF available = "KeyError" THEN {Raised}
                          ELSE SlotLoop(course, day, Tail(shuffled))
         IN  UNION {Step(room_name) :
                        room_name \in FindAvailableRoom(GetClassSize(course.class),
                                                        day, time_slot)}

\* The body of `for day in days` for a day that is not skipped, over the slot shuffles.
DayResults(course, day) ==
    UNION {SlotLoop(course, day, shuffled) : shuffled \in Perms(time_slots)}

\* The day loop that gives up after the first day it tries.
DayLoopFirstDayOnly(unvisited, results) ==
    IF unvisited = {} THEN {NoCommit}
    ELSE UNION {results[day] : day \in unvisited}

\* `for day in days` over the shuffled days, for the days the loop does not skip.
\* The order random.shuffle(days) produces is drawn one day at a time: the next
\* day of the loop is any day not yet visited, which yields exactly the orders
\* the shuffle can produce.
RECURSIVE DayLoop(_, _)
DayLoop(unvisited, results) ==
    IF unvisited = {} THEN {NoCommit}
    ELSE UNION {UNION {IF r = NoCommit THEN DayLoop(unvisited \ {day}, results) ELSE {r} :
                           r \in results[day]} :
                    day \in unvisited}

\* One iteration of `for _ in range(required_sessions)`: every result the
\* shuffles of days, slots and rooms can lead to.  assigned_days does not change
\* during the search, so the days that `continue` skips are left out beforehand.
SessionResults(course, assigned) ==
    LET tried == {day \in Range(Days) : ~SkipDay(day, assigned)}
        results == [day \in tried |-> DayResults(course, day)]
    IN  DayLoop(tried, results)

\* The record appended when a session could not be scheduled.
UnscheduledRecord(course) ==
    [type |-> "Unscheduled Session", day |-> "N/A", time |-> <<>>,
     description |-> <<course.name, course.class, course.teacher>>]

(***************************************************************************)
(* sorted(self.courses, key=lambda x: (-x['frequency'], x['name']))        *)
(***************************************************************************)
\* The order of the course names that occur in the model, as Python orders strings.
NameOrder == <<"Art", "Bio">>
NameRank(name) == CHOOSE i \in DOMAIN NameOrder : NameOrder[i] = name

\* KeyLess with the sign of the frequency lost: (a.frequency, a.name) < (b.frequency, b.name)
KeyLessAscending(a, b) ==
    \/ a.frequency < b.frequency
    \/ a.frequency = b.frequency /\ NameRank(a.name) < NameRank(b.name)

\* (-a.frequency, a.name) < (-b.frequency, b.name)
KeyLess(a, b) ==
    \/ a.frequency > b.frequency
    \/ a.frequency = b.frequency /\ NameRank(a.name) < NameRank(b.name)

\* c placed in an already sorted sequence, after the elements it does not precede
\* (the sort is stable).
RECURSIVE Insert(_, _)
Insert(c, s) ==
    IF s = <<>> THEN <<c>>
    ELSE IF KeyLess(c, Head(s)) THEN <<c>> \o s
    ELSE <<Head(s)>> \o Insert(c, Tail(s))

RECURSIVE SortPrefix(_, _)
SortPrefix(cs, n) ==
    IF n = 0 THEN <<>> ELSE Insert(cs[n], SortPrefix(cs, n - 1))

SortCourses(cs) == SortPrefix(cs, Len(cs))

\* The key of a course in course_sessions.
CourseKey(course) == <<course.name, course.class>>

\* The keys of a dictionary built from the sequence s, in insertion order.
RECURSIVE DictKeys(_)
DictKeys(s) ==
    IF s = <<>> THEN <<>>
    ELSE LET rest == DictKeys(SubSeq(s, 1, Len(s) - 1))
             last == s[Len(s)]
         IN  IF last \in Range(rest) THEN rest ELSE Append(rest, last)

(***************************************************************************)
(* Conflict audit: lines 257-315 of generate_schedule.                     *)
(***************************************************************************)
NamesOf(s) == [i \in DOMAIN s |-> s[i].name]

\* The keys of the three ledgers, in dictionary order.
ClassKeys == DictKeys(NamesOf(classes))
TeacherKeys == DictKeys(teachers)
RoomKeys == DictKeys(NamesOf(rooms))

\* Cells with the loops over the days and over the names exchanged.
CellsDayMajor(names) ==
    LET nn == Len(names)
        ns == Len(time_slots)
    IN  [i \in 1..(Len(names) * Len(Days) * ns) |->
            <<names[(((i - 1) \div ns) % nn) + 1],
              Days[((i - 1) \div (nn * ns)) + 1],
              time_slots[((i - 1) % ns) + 1]>>]

\* <<name, day, time_slot>> in the order of the three nested for loops.
Cells(names) ==
    LET nd == Len(Days)
        ns == Len(time_slots)
    IN  [i \in 1..(Len(names) * nd * ns) |->
            <<names[((i - 1) \div (nd * ns)) + 1],
              Days[(((i - 1) \div ns) % nd) + 1],
              time_slots[((i - 1) % ns) + 1]>>]

\* Lines 258-264: the assignments of the class ledger cs, in loop order.
CollectSchedule(cs) ==
    LET Occupied(cell) == cs[cell[1]][cell[2]][cell[3]] # None
        occupied == SelectSeq(Cells(ClassKeys), Occupied)
    IN  [i \in DOMAIN occupied |-> cs[occupied[i][1]][occupied[i][2]][occupied[i][3]]]

\* classes_at_time of the teacher scan and of the room scan.
ClassesAtTime(cs, field, name, day, time_slot) ==
    LET Names(class_name) ==
            /\ cs[class_name][day][time_slot] # None
            /\ cs[class_name][day][time_slot][field] = name
    IN  SelectSeq(ClassKeys, Names)

\* ScanConflicts with len(classes_at_time) > 0 for > 1.
ScanConflictsAnyClass(cs, type, field, names) ==
    LET Multiple(cell) == Len(ClassesAtTime(cs, field, cell[1], cell[2], cell[3])) > 0
        hits == SelectSeq(Cells(names), Multiple)
    IN  [i \in DOMAIN hits |->
            [type |-> type, day |-> hits[i][2], time |-> hits[i][3],
             description |-> <<hits[i][1],
                               ClassesAtTime(cs, field, hits[i][1], hits[i][2], hits[i][3])>>]]

\* Lines 267-283 and 286-302: one record per (name, day, slot) with more than one class.
ScanConflicts(cs, type, field, names) ==
    LET Multiple(cell) == Len(ClassesAtTime(cs, field, cell[1], cell[2], cell[3])) > 1
        hits == SelectSeq(Cells(names), Multiple)
    IN  [i \in DOMAIN hits |->
            [type |-> type, day |-> hits[i][2], time |-> hits[i][3],
             description |-> <<hits[i][1],
                               ClassesAtTime(cs, field, hits[i][1], hits[i][2], hits[i][3])>>]]

TeacherConflicts(cs) == ScanConflicts(cs, "Teacher Conflict", "teacher", TeacherKeys)
RoomConflicts(cs) == ScanConflicts(cs, "Room Conflict", "room", RoomKeys)

\* next((c['frequency'] for c in self.courses if c['name'] == ... and c['class'] == ...), 0)
RECURSIVE FirstFrequency(_, _)
FirstFrequency(cs, key) ==
    IF cs = <<>> THEN 0
    ELSE IF CourseKey(Head(cs)) = key THEN Head(cs).frequency
    ELSE FirstFrequency(Tail(cs), key)

RequiredSessions(key) == FirstFrequency(courses, key)

\* The frequency test with <= for <.
FrequencyShortOrEqual(assigned, required) == assigned <= required

\* `if assigned_sessions < required_sessions`
FrequencyShort(assigned, required) == assigned < required

\* The keys of course_sessions, in dictionary order.
SessionKeys == DictKeys([i \in DOMAIN courses |-> CourseKey(courses[i])])

\* Lines 305-315.
FrequencyRecords(sessions) ==
    LET Short(key) == FrequencyShort(sessions[key], RequiredSessions(key))
        short == SelectSeq(SessionKeys, Short)
    IN  [i \in DOMAIN short |->
            [type |-> "Frequency Not Met", day |-> "N/A", time |-> <<>>,
             description |-> <<short[i][1], short[i][2],
                               sessions[short[i]], RequiredSessions(short[i])>>]]

\* The conflict records the audit appends, in order.
AuditRecords(cs, sessions) ==
    TeacherConflicts(cs) \o RoomConflicts(cs) \o FrequencyRecords(sessions)

(***************************************************************************)
(* generate_schedule as a state machine.                                   *)
(***************************************************************************)
\* The course of the outer loop.
CurrentCourse == sorted_courses[course_index]

\* StartRun with self.courses.sort(...) for sorted(self.courses, ...): the
\* list given to the constructor is sorted in place.
StartRunSortingInPlace ==
    /\ sorted_courses' = SortCourses(courses)
    /\ courses' = SortCourses(courses)
    /\ schedule' = <<>>
    /\ conflicts' = <<>>
    /\ course_sessions' = [key \in Range(SessionKeys) |-> 0]
    /\ course_index' = 0
    /\ session_index' = 0
    /\ assigned_days' = {}
    /\ pc' = "courses"
    /\ calls' = calls + 1
    /\ UNCHANGED <<teachers, rooms, classes, gridVars, loopVars, ledgerVars,
                   suspended, storeVars>>

\* Lines 197-205: the locals of a call; the ledgers are the ones the instance holds.
StartRun ==
    /\ sorted_courses' = SortCourses(courses)
    /\ schedule' = <<>>
    /\ conflicts' = <<>>
    /\ course_sessions' = [key \in Range(SessionKeys) |-> 0]
    /\ course_index' = 0
    /\ session_index' = 0
    /\ assigned_days' = {}
    /\ pc' = "courses"
    /\ calls' = calls + 1
    /\ UNCHANGED <<inputVars, gridVars, loopVars, ledgerVars, suspended, storeVars>>

\* The call of generate_schedule on a constructed instance.
GenerateStart ==
    /\ pc = "ready"
    /\ StartRun

\* Lines 208-215: the next course of `for course in sorted_courses`.
BeginCourse ==
    /\ pc = "courses"
    /\ course_index < Len(sorted_courses)
    /\ course_index' = course_index + 1
    /\ session_index' = 0
    /\ assigned_days' = {}
    /\ pc' = IF sorted_courses[course_index + 1].frequency > 0 THEN "sessions" ELSE "courses"
    /\ UNCHANGED <<calls, suspended, storeVars, inputVars, gridVars, loopVars, ledgerVars,
                   sorted_courses, course_sessions, conflicts, schedule>>

\* The position after one iteration of the session loop.
AfterSession ==
    IF session_index + 1 < CurrentCourse.frequency THEN "sessions" ELSE "courses"

\* Lines 237-243: the session is committed.
CommitSession(r) ==
    LET course == CurrentCourse
        ledgers == AssignTimeSlot(course, course.class, course.teacher, r.room, r.day, r.time)
    IN  /\ class_schedule' = ledgers.class_schedule
        /\ teacher_schedule' = ledgers.teacher_schedule
        /\ room_schedule' = ledgers.room_schedule
        /\ course_sessions' = [course_sessions EXCEPT ![CourseKey(course)] = @ + 1]
        /\ assigned_days' = assigned_days \cup {r.day}
        /\ session_index' = session_index + 1
        /\ pc' = AfterSession
        /\ UNCHANGED <<calls, suspended, storeVars, inputVars, gridVars, loopVars, sorted_courses, course_index,
                       conflicts, schedule>>

\* Lines 248-255: the session could not be scheduled.
RecordUnscheduled ==
    /\ conflicts' = Append(conflicts, UnscheduledRecord(CurrentCourse))
    /\ session_index' = session_index + 1
    /\ pc' = AfterSession
    /\ UNCHANGED <<calls, suspended, storeVars, inputVars, gridVars, loopVars, ledgerVars, sorted_courses,
                   course_index, assigned_days, course_sessions, schedule>>

\* A ledger lookup raised KeyError: generate_schedule returns nothing.
RaiseKeyError ==
    /\ pc' = "KeyError"
    /\ UNCHANGED <<calls, suspended, storeVars, inputVars, gridVars, loopVars, ledgerVars, runVars>>

\* Lines 218-255: one iteration of `for _ in range(required_sessions)`.
AttemptSession ==
    /\ pc = "sessions"
    /\ \E r \in SessionResults(CurrentCourse, assigned_days) :
          \/ r.kind = "commit" /\ CommitSession(r)
          \/ r.kind = "none" /\ RecordUnscheduled
          \/ r.kind = "KeyError" /\ RaiseKeyError

\* The audit emptying the class ledger it has collected the schedule from.
AuditClearingLedger ==
    /\ pc = "courses"
    /\ course_index = Len(sorted_courses)
    /\ schedule' = schedule \o CollectSchedule(class_schedule)
    /\ conflicts' = conflicts \o AuditRecords(class_schedule, course_sessions)
    /\ class_schedule' = EmptyLedger(DOMAIN class_schedule, time_slots)
    /\ pc' = "done"
    /\ UNCHANGED <<calls, suspended, storeVars, inputVars, gridVars, loopVars,
                   teacher_schedule, room_schedule, sorted_courses,
                   course_index, session_index, assigned_days, course_sessions>>

\* Lines 257-317: the audit and the return.
Audit ==
    /\ pc = "courses"
    /\ course_index = Len(sorted_courses)
    /\ schedule' = schedule \o CollectSchedule(class_schedule)
    /\ conflicts' = conflicts \o AuditRecords(class_schedule, course_sessions)
    /\ pc' = "done"
    /\ UNCHANGED <<calls, suspended, storeVars, inputVars, gridVars, loopVars, ledgerVars, sorted_courses,
                   course_index, session_index, assigned_days, course_sessions>>

Next == GenerateStart \/ BeginCourse \/ AttemptSession \/ Audit

(***************************************************************************)
(* The inputs of the model.                                                *)
(***************************************************************************)
MaxFrequency == 5
MaxSlots == 2

\* The defaults of the schedule options form.
DefaultStart == 480
DefaultPeriod == 50
DefaultBreak == 10
DefaultLunch == 30

\* The end time that leaves room for exactly n periods (for 0: ten minutes short of one).
DayEnd(n) == DefaultStart + n * (DefaultPeriod + DefaultBreak) - DefaultBreak

\* The teacher store: T3 has been removed from it, its courses have not.
TeacherList == <<"T1", "T2">>

BigRoom == [name |-> "R1", capacity |-> 30]
SmallRoom == [name |-> "R2", capacity |-> 20]
RoomLists == {<<BigRoom>>, <<SmallRoom, BigRoom>>, <<SmallRoom>>}

\* Class A fits the big room only, class B fits both rooms.
ClassList == <<[name |-> "A", size |-> 25], [name |-> "B", size |-> 15]>>

Course(name, teacher, class, frequency) ==
    [name |-> name, teacher |-> teacher, class |-> class, frequency |-> frequency]

\* One course of any frequency, of a listed or of a removed teacher.
SingleCourses ==
    {<<Course("Art", t, c, f)>> : t \in {"T1", "T3"}, c \in {"A", "B"}, f \in 1..MaxFrequency}

\* Two courses of low frequency: same or other name, teacher and class.
CoursePairs ==
    {<<Course("Art", "T1", "A", f), Course(n, t, c, g)>> :
        f \in 1..2, n \in {"Art", "Bio"}, t \in {"T1", "T2"}, c \in {"A", "B"}, g \in 1..2}

\* Three courses of one teacher that ask for the whole week of a two-slot grid.
ScarceCourses ==
    {<<Course("Art", "T1", "A", 2),
       Course("Bio", "T1", "A", Len(Days) - 1),
       Course("Art", "T1", "B", Len(Days) - 1)>>}

\* The same course entered twice: the add-course form accepts it.
DuplicateCourses ==
    {<<Course("Art", "T1", "A", 1), Course("Art", "T1", "A", 1)>>}

\* One course that asks for one session more than the week has days.
LongCourses ==
    {<<Course("Art", "T1", "A", Len(Days) + 1)>>}

\* One course of a class that has been removed from the class list.
AbsentClassCourses ==
    {<<Course("Art", "T1", "C", 1)>>}

Input(rs, cs, n) == [rooms |-> rs, courses |-> cs, slots |-> n]

Inputs ==
    {Input(rs, cs, n) : rs \in RoomLists, cs \in SingleCourses, n \in 0..MaxSlots}
    \cup {Input(rs, cs, n) : rs \in RoomLists, cs \in CoursePairs, n \in {1}}
    \cup {Input(<<BigRoom>>, cs, n) : cs \in ScarceCourses, n \in {1, 2}}
    \cup {Input(<<BigRoom>>, cs, n) : cs \in DuplicateCourses \cup LongCourses, n \in {2}}
    \cup {Input(<<BigRoom>>, cs, n) : cs \in AbsentClassCourses, n \in {1}}

\* No second instance has been constructed.
NoInstance == <<>>

\* The state after ScheduleGenerator(...) has been constructed on one of the inputs.
Constructed(inputs) ==
    /\ \E in \in inputs :
          /\ rooms = in.rooms
          /\ courses = in.courses
          /\ end_minutes = DayEnd(in.slots)
    /\ teachers = TeacherList
    /\ classes = ClassList
    /\ start_minutes = DefaultStart
    /\ period_length = DefaultPeriod
    /\ break_length = DefaultBreak
    /\ lunch_period = "No lunch"
    /\ lunch_duration = DefaultLunch
    /\ LET st == GenerateTimeSlots(start_minutes)
       IN  /\ time_slots = st.time_slots
           /\ current_minutes = st.current_minutes
           /\ period_counter = st.period_counter
           /\ class_schedule = EmptyLedger(Range(NamesOf(classes)), st.time_slots)
           /\ teacher_schedule = EmptyLedger(Range(teachers), st.time_slots)
           /\ room_schedule = EmptyLedger(Range(NamesOf(rooms)), st.time_slots)
    /\ pc = "ready"
    /\ sorted_courses = <<>>
    /\ course_index = 0
    /\ session_index = 0
    /\ assigned_days = {}
    /\ course_sessions = <<>>
    /\ conflicts = <<>>
    /\ schedule = <<>>
    /\ calls = 0
    /\ teachers_data = <<>>
    /\ rooms_data = <<>>
    /\ classes_data = <<>>
    /\ courses_data = <<>>

Init == Constructed(Inputs) /\ suspended = NoInstance

Spec == Init /\ [][Next]_vars

(***************************************************************************)
(* generate_schedule called again on the instance that has returned.       *)
(***************************************************************************)
MaxCalls == 2

\* One course on a one-slot grid, with and without a room and a teacher for it.
RerunInputs ==
    {Input(rs, <<Course("Art", t, "A", f)>>, 1) :
        rs \in {<<BigRoom>>, <<SmallRoom>>}, t \in {"T1", "T3"}, f \in {1, 3}}

InitRerun == Constructed(RerunInputs) /\ suspended = NoInstance

\* Another call of generate_schedule on the same instance.
GenerateAgain ==
    /\ pc = "done"
    /\ calls < MaxCalls
    /\ StartRun

NextRerun == Next \/ GenerateAgain

SpecRerun == InitRerun /\ [][NextRerun]_vars

(***************************************************************************)
(* The constructor, one iteration of the grid loop at a time.              *)
(***************************************************************************)
MaxDayLength == 300

\* 08:00 and 12:05
GridStarts == {480, 725}
GridPeriods == {30, 50}
GridBreaks == {0, 10}
GridLunches == {5, 30}
LunchRules == {"No lunch", "After period 3", "After period 4"}

\* The state at the start of _generate_time_slots, called from __init__.
InitGrid ==
    /\ teachers = TeacherList
    /\ rooms = <<SmallRoom, BigRoom>>
    /\ classes = ClassList
    /\ courses = <<Course("Art", "T1", "A", 1)>>
    /\ start_minutes \in GridStarts
    /\ \E length \in 0..MaxDayLength : end_minutes = start_minutes + length
    /\ period_length \in GridPeriods
    /\ break_length \in GridBreaks
    /\ lunch_period \in LunchRules
    /\ lunch_duration \in GridLunches
    /\ time_slots = <<>>
    /\ current_minutes = start_minutes
    /\ period_counter = 1
    /\ class_schedule = <<>>
    /\ teacher_schedule = <<>>
    /\ room_schedule = <<>>
    /\ pc = "grid"
    /\ sorted_courses = <<>>
    /\ course_index = 0
    /\ session_index = 0
    /\ assigned_days = {}
    /\ course_sessions = <<>>
    /\ conflicts = <<>>
    /\ schedule = <<>>
    /\ calls = 0
    /\ suspended = NoInstance
    /\ teachers_data = <<>>
    /\ rooms_data = <<>>
    /\ classes_data = <<>>
    /\ courses_data = <<>>

\* Lines 75-93: one iteration of the while loop.
TimeSlotIteration ==
    /\ pc = "grid"
    /\ SlotFits(current_minutes)
    /\ LET st == TimeSlotBody([time_slots |-> time_slots,
                               current_minutes |-> current_minutes,
                               period_counter |-> period_counter])
       IN  /\ time_slots' = st.time_slots
           /\ current_minutes' = st.current_minutes
           /\ period_counter' = st.period_counter
    /\ UNCHANGED <<calls, suspended, storeVars, inputVars, gridVars, ledgerVars, pc, runVars>>

\* Line 95 and lines 46-57: the loop ends, the slots are returned and __init__
\* builds the three ledgers.
Construct ==
    /\ pc = "grid"
    /\ ~SlotFits(current_minutes)
    /\ class_schedule' = EmptyLedger(Range(NamesOf(classes)), time_slots)
    /\ teacher_schedule' = EmptyLedger(Range(teachers), time_slots)
    /\ room_schedule' = EmptyLedger(Range(NamesOf(rooms)), time_slots)
    /\ pc' = "ready"
    /\ UNCHANGED <<calls, suspended, storeVars, inputVars, gridVars, loopVars, runVars>>

NextGrid == TimeSlotIteration \/ Construct

SpecGrid == InitGrid /\ [][NextGrid]_vars

(***************************************************************************)
(* Two instances built from the same entity lists and the same grid, their *)
(* runs interleaved: the variables hold the attributes and locals of the   *)
(* instance that takes the next step, suspended holds those of the other.  *)
(***************************************************************************)
\* The attributes (lines 46-57) and the locals of generate_schedule of the
\* instance that is running.
Running ==
    [class_schedule |-> class_schedule, teacher_schedule |-> teacher_schedule,
     room_schedule |-> room_schedule, pc |-> pc, sorted_courses |-> sorted_courses,
     course_index |-> course_index, session_index |-> session_index,
     assigned_days |-> assigned_days, course_sessions |-> course_sessions,
     conflicts |-> conflicts, schedule |-> schedule, calls |-> calls]

\* Resumed as if the ledgers were one object shared by the instances.
ResumedShared(own, other) == own

\* Lines 47-57: __init__ binds fresh dictionaries to self, so the ledger an
\* instance finds when it resumes is its own, not the one the other has written.
Resumed(own, other) == other

\* One course of low frequency on a one-slot grid.
TwoInputs ==
    {Input(rs, <<Course("Art", t, "A", f)>>, 1) :
        rs \in {<<BigRoom>>, <<SmallRoom>>}, t \in {"T1", "T3"}, f \in 1..2}

\* Both instances have been constructed.
InitTwo ==
    /\ Constructed(TwoInputs)
    /\ suspended = Running

\* The other instance takes the next step.
SwitchInstance ==
    /\ suspended' = Running
    /\ class_schedule' = Resumed(class_schedule, suspended.class_schedule)
    /\ teacher_schedule' = Resumed(teacher_schedule, suspended.teacher_schedule)
    /\ room_schedule' = Resumed(room_schedule, suspended.room_schedule)
    /\ pc' = suspended.pc
    /\ sorted_courses' = suspended.sorted_courses
    /\ course_index' = suspended.course_index
    /\ session_index' = suspended.session_index
    /\ assigned_days' = suspended.assigned_days
    /\ course_sessions' = suspended.course_sessions
    /\ conflicts' = suspended.conflicts
    /\ schedule' = suspended.schedule
    /\ calls' = suspended.calls
    /\ UNCHANGED <<inputVars, gridVars, loopVars, storeVars>>

NextTwo == Next \/ SwitchInstance

SpecTwo == InitTwo /\ [][NextTwo]_vars

(***************************************************************************)
(* The data store (src/data_manager.py).  The 'id' of an entity, a fresh    *)
(* uuid4 string that no operation reads, is left out of the records.       *)
(***************************************************************************)
MaxStored == 2

engineVars == <<inputVars, gridVars, loopVars, ledgerVars, pc, runVars, calls, suspended>>

\* The arguments the operations are called with.
TeacherNames == {"T1", "T2"}
SubjectLists == {<<"Art">>}
StoredRooms == {BigRoom, SmallRoom}
StoredClasses == Range(ClassList)
CourseNames == {"Art"}
ClassNames == {"A", "B"}
CourseTeachers == {"T1"}
Durations == {DefaultPeriod}
StoredFrequencies == {1}

\* DataManager.__init__ on a new session: the four lists are empty, and no
\* generator has been constructed.
InitStore ==
    /\ teachers_data = <<>>
    /\ rooms_data = <<>>
    /\ classes_data = <<>>
    /\ courses_data = <<>>
    /\ teachers = <<>>
    /\ rooms = <<>>
    /\ classes = <<>>
    /\ courses = <<>>
    /\ start_minutes = DefaultStart
    /\ end_minutes = DayEnd(0)
    /\ period_length = DefaultPeriod
    /\ break_length = DefaultBreak
    /\ lunch_period = "No lunch"
    /\ lunch_duration = DefaultLunch
    /\ time_slots = <<>>
    /\ current_minutes = DefaultStart
    /\ period_counter = 1
    /\ class_schedule = <<>>
    /\ teacher_schedule = <<>>
    /\ room_schedule = <<>>
    /\ pc = "store"
    /\ sorted_courses = <<>>
    /\ course_index = 0
    /\ session_index = 0
    /\ assigned_days = {}
    /\ course_sessions = <<>>
    /\ conflicts = <<>>
    /\ schedule = <<>>
    /\ calls = 0
    /\ suspended = NoInstance

add_teacher(name, subjects) ==
    /\ Len(teachers_data) < MaxStored
    /\ teachers_data' = Append(teachers_data, [name |-> name, subjects |-> subjects])
    /\ UNCHANGED <<rooms_data, classes_data, courses_data>>

remove_teacher(teacher_name) ==
    /\ LET Kept(t) == ~(t.name = teacher_name)
       IN  teachers_data' = SelectSeq(teachers_data, Kept)
    /\ UNCHANGED <<rooms_data, classes_data, courses_data>>

add_room(name, capacity) ==
    /\ Len(rooms_data) < MaxStored
    /\ rooms_data' = Append(rooms_data, [name |-> name, capacity |-> capacity])
    /\ UNCHANGED <<teachers_data, classes_data, courses_data>>

remove_room(room_name) ==
    /\ LET Kept(r) == ~(r.name = room_name)
       IN  rooms_data' = SelectSeq(rooms_data, Kept)
    /\ UNCHANGED <<teachers_data, classes_data, courses_data>>

add_class(name, size) ==
    /\ Len(classes_data) < MaxStored
    /\ classes_data' = Append(classes_data, [name |-> name, size |-> size])
    /\ UNCHANGED <<teachers_data, rooms_data, courses_data>>

\* remove_class without lines 129-132: the courses of the class stay.
remove_class_keeping_courses(class_name) ==
    /\ LET Kept(c) == ~(c.name = class_name)
       IN  classes_data' = SelectSeq(classes_data, Kept)
    /\ UNCHANGED <<teachers_data, rooms_data, courses_data>>

\* Lines 118-132: the class and the courses assigned to it are removed.
remove_class(class_name) ==
    /\ LET Kept(c) == ~(c.name = class_name)
       IN  classes_data' = SelectSeq(classes_data, Kept)
    /\ LET Kept(c) == ~(c.class = class_name)
       IN  courses_data' = SelectSeq(courses_data, Kept)
    /\ UNCHANGED <<teachers_data, rooms_data>>

add_course(name, teacher, assigned_class, duration, frequency) ==
    /\ Len(courses_data) < MaxStored
    /\ courses_data' = Append(courses_data,
                              [name |-> name, teacher |-> teacher, class |-> assigned_class,
                               duration |-> duration, frequency |-> frequency])
    /\ UNCHANGED <<teachers_data, rooms_data, classes_data>>

remove_course(course_name, class_name) ==
    /\ LET Kept(c) == ~(c.name = course_name /\ c.class = class_name)
       IN  courses_data' = SelectSeq(courses_data, Kept)
    /\ UNCHANGED <<teachers_data, rooms_data, classes_data>>

clear_all_data ==
    /\ teachers_data' = <<>>
    /\ rooms_data' = <<>>
    /\ classes_data' = <<>>
    /\ courses_data' = <<>>

\* The operations are called while no generator runs.
NextStore ==
    \/ \E name \in TeacherNames, subjects \in SubjectLists :
          add_teacher(name, subjects) /\ UNCHANGED engineVars
    \/ \E name \in TeacherNames : remove_teacher(name) /\ UNCHANGED engineVars
    \/ \E r \in StoredRooms : add_room(r.name, r.capacity) /\ UNCHANGED engineVars
    \/ \E r \in StoredRooms : remove_room(r.name) /\ UNCHANGED engineVars
    \/ \E c \in StoredClasses : add_class(c.name, c.size) /\ UNCHANGED engineVars
    \/ \E name \in ClassNames : remove_class(name) /\ UNCHANGED engineVars
    \/ \E name \in CourseNames, teacher \in CourseTeachers, class \in ClassNames,
          duration \in Durations, frequency \in StoredFrequencies :
          add_course(name, teacher, class, duration, frequency) /\ UNCHANGED engineVars
    \/ \E name \in CourseNames, class \in ClassNames :
          remove_course(name, class) /\ UNCHANGED engineVars
    \/ clear_all_data /\ UNCHANGED engineVars

SpecStore == InitStore /\ [][NextStore]_vars

(***************************************************************************)
(* _assign_time_slot called on the constructed instance with any listed    *)
(* class, teacher and room, before generate_schedule is called on it.      *)
(***************************************************************************)
\* One course, with and without a listed teacher and a room for its class.
OccupyInputs ==
    {Input(<<SmallRoom, BigRoom>>, <<Course("Art", t, "A", 1)>>, 1) : t \in {"T1", "T3"}}
    \cup {Input(<<SmallRoom>>, <<Course("Art", "T1", "A", 1)>>, 1)}

InitOccupy == Constructed(OccupyInputs) /\ suspended = NoInstance

\* The weekdays the calls name.
OccupyDays == {Days[1]}

\* Lines 125-149: the three writes, whatever the cells hold.
assign_time_slot(course, class_name, teacher_name, room_name, day, time_slot) ==
    /\ pc = "ready"
    /\ LET ledgers == AssignTimeSlot(course, class_name, teacher_name, room_name,
                                     day, time_slot)
       IN  /\ class_schedule' = ledgers.class_schedule
           /\ teacher_schedule' = ledgers.teacher_schedule
           /\ room_schedule' = ledgers.room_schedule
    /\ UNCHANGED <<calls, suspended, storeVars, inputVars, gridVars, loopVars, pc, runVars>>

NextOccupy ==
    \/ \E course \in Range(courses), class_name \in Range(ClassKeys),
          teacher_name \in Range(TeacherKeys), room_name \in Range(RoomKeys),
          day \in OccupyDays, time_slot \in Range(time_slots) :
          assign_time_slot(course, class_name, teacher_name, room_name, day, time_slot)
    \/ Next

SpecOccupy == InitOccupy /\ [][NextOccupy]_vars

(***************************************************************************)
(* The input forms of src/app.py, one handler per action.  In this         *)
(* specification teachers, rooms, classes and courses hold the lists       *)
(* st.session_state.teachers, .rooms, .classes and .courses, which the     *)
(* Generate Schedule handler passes to ScheduleGenerator (lines 344-348),  *)
(* with the fields of the store.  A handler is one step: within a handler  *)
(* every append to a stored list is followed by the refresh of the session *)
(* list of the same name, so that the two lists being one object or two    *)
(* makes no difference between handlers.                                   *)
(***************************************************************************)
appFrame == <<gridVars, loopVars, ledgerVars, pc, runVars, calls, suspended>>

\* The names the forms are filled with.
AppTeacherNames == {"T1"}
AppRooms == {BigRoom}

\* The sample lists of lines 235-288, cut to their first entries and under the
\* names of the model.
SampleTeachers == <<[name |-> "T1", subjects |-> <<"Art">>]>>
SampleRooms == <<BigRoom>>
SampleClasses == <<ClassList[1]>>
SampleCourses ==
    <<[name |-> "Art", teacher |-> "T1", class |-> "A",
       duration |-> DefaultPeriod, frequency |-> 3]>>

\* Lines 18-25 and DataManager.__init__: the first run of the script.
InitApp == InitStore

\* Lines 78-84.
AddTeacher(name, subjects) ==
    /\ add_teacher(name, subjects)
    /\ teachers' = teachers_data'
    /\ UNCHANGED <<rooms, classes, courses, appFrame>>

\* Lines 87-101: the teacher is chosen among the names of the session list.
RemoveTeacher(name) ==
    /\ name \in Range(NamesOf(teachers))
    /\ remove_teacher(name)
    /\ teachers' = teachers_data'
    /\ UNCHANGED <<rooms, classes, courses, appFrame>>

\* Lines 114-119.
AddRoom(name, capacity) ==
    /\ add_room(name, capacity)
    /\ rooms' = rooms_data'
    /\ UNCHANGED <<teachers, classes, courses, appFrame>>

\* Lines 122-136.
RemoveRoom(name) ==
    /\ name \in Range(NamesOf(rooms))
    /\ remove_room(name)
    /\ rooms' = rooms_data'
    /\ UNCHANGED <<teachers, classes, courses, appFrame>>

\* Lines 149-154.
AddClass(name, size) ==
    /\ add_class(name, size)
    /\ classes' = classes_data'
    /\ UNCHANGED <<teachers, rooms, courses, appFrame>>

\* Lines 157-171: only st.session_state.classes is refreshed.
RemoveClass(name) ==
    /\ name \in Range(NamesOf(classes))
    /\ remove_class(name)
    /\ classes' = classes_data'
    /\ UNCHANGED <<teachers, rooms, courses, appFrame>>

\* Lines 181-208: the teacher and the class are chosen among the names of the
\* session lists.
AddCourse(name, teacher, class, duration, frequency) ==
    /\ teacher \in Range(NamesOf(teachers))
    /\ class \in Range(NamesOf(classes))
    /\ add_course(name, teacher, class, duration, frequency)
    /\ courses' = courses_data'
    /\ UNCHANGED <<teachers, rooms, classes, appFrame>>

\* Lines 211-227: the course is chosen among the entries of the session list;
\* its label "name (class)" is split back into the name and the class (the
\* names of the model hold no parenthesis).
RemoveCourse(course) ==
    /\ course \in Range(courses)
    /\ remove_course(course.name, course.class)
    /\ courses' = courses_data'
    /\ UNCHANGED <<teachers, rooms, classes, appFrame>>

\* Lines 233-319: the store is cleared and filled with the sample lists, and
\* the four session lists are refreshed.
LoadSampleData ==
    /\ teachers_data' = SampleTeachers
    /\ rooms_data' = SampleRooms
    /\ classes_data' = SampleClasses
    /\ courses_data' = SampleCourses
    /\ teachers' = teachers_data'
    /\ rooms' = rooms_data'
    /\ classes' = classes_data'
    /\ courses' = courses_data'
    /\ UNCHANGED appFrame

NextApp ==
    \/ \E name \in AppTeacherNames, subjects \in SubjectLists : AddTeacher(name, subjects)
    \/ \E name \in AppTeacherNames : RemoveTeacher(name)
    \/ \E r \in AppRooms : AddRoom(r.name, r.capacity)
    \/ \E r \in AppRooms : RemoveRoom(r.name)
    \/ \E c \in StoredClasses : AddClass(c.name, c.size)
    \/ \E name \in ClassNames : RemoveClass(name)
    \/ \E name \in CourseNames, teacher \in AppTeacherNames, class \in ClassNames,
          duration \in Durations, frequency \in StoredFrequencies :
          AddCourse(name, teacher, class, duration, frequency)
    \/ \E course \in Range(courses) : RemoveCourse(course)
    \/ LoadSampleData

SpecApp == InitApp /\ [][NextApp]_vars

(***************************************************************************)
(* The constructor followed by one call of generate_schedule.              *)
(***************************************************************************)
\* Day lengths that leave room for no period, for one and for several.
WholeLengths == {40, 50, 110}

\* The state at the start of _generate_time_slots, for one course that has or
\* lacks a room and a teacher.
InitWhole ==
    /\ teachers = TeacherList
    /\ rooms \in {<<BigRoom>>, <<SmallRoom>>}
    /\ classes = ClassList
    /\ \E t \in {"T1", "T3"}, f \in 1..2 : courses = <<Course("Art", t, "A", f)>>
    /\ start_minutes = DefaultStart
    /\ \E length \in WholeLengths : end_minutes = start_minutes + length
    /\ period_length \in GridPeriods
    /\ break_length \in GridBreaks
    /\ lunch_period \in LunchRules
    /\ lunch_duration = DefaultLunch
    /\ time_slots = <<>>
    /\ current_minutes = start_minutes
    /\ period_counter = 1
    /\ class_schedule = <<>>
    /\ teacher_schedule = <<>>
    /\ room_schedule = <<>>
    /\ pc = "grid"
    /\ sorted_courses = <<>>
    /\ course_index = 0
    /\ session_index = 0
    /\ assigned_days = {}
    /\ course_sessions = <<>>
    /\ conflicts = <<>>
    /\ schedule = <<>>
    /\ calls = 0
    /\ suspended = NoInstance
    /\ teachers_data = <<>>
    /\ rooms_data = <<>>
    /\ classes_data = <<>>
    /\ courses_data = <<>>

NextWhole == NextGrid \/ Next

SpecWhole == InitWhole /\ [][NextWhole]_vars

(***************************************************************************)
(* Properties of the schedule and of the conflict list.                    *)
(***************************************************************************)
\* The assignments held by the cells of a ledger.
LedgerAssignments(ledger) ==
    {ledger[n][d][t] : n \in DOMAIN ledger, d \in Range(Days), t \in Range(time_slots)}
        \ {None}

\* Two assignments at the same (day, slot).
SameCell(a, b) == a.day = b.day /\ a.time = b.time

\* The conflict records of one type.
RecordsOfType(type) == {k \in DOMAIN conflicts : conflicts[k].type = type}

\* C1: the returned schedule has, for every (day, slot), at most one assignment
\* per class, per teacher and per room, and the returned conflict list holds no
\* 'Teacher Conflict' and no 'Room Conflict' record.
C1_NoDoubleBooking ==
    pc = "done" =>
        /\ \A i, j \in DOMAIN schedule :
              (i # j /\ SameCell(schedule[i], schedule[j])) =>
                  /\ schedule[i].class # schedule[j].class
                  /\ schedule[i].teacher # schedule[j].teacher
                  /\ schedule[i].room # schedule[j].room
        /\ RecordsOfType("Teacher Conflict") = {}
        /\ RecordsOfType("Room Conflict") = {}

\* A returned schedule in which two assignments share a (day, slot).
C1_Witness ==
    /\ pc = "done"
    /\ \E i, j \in DOMAIN schedule : i # j /\ SameCell(schedule[i], schedule[j])

\* An assignment names a room of the room list that is large enough for its class.
RoomLargeEnough(a) ==
    \E i \in DOMAIN rooms :
        rooms[i].name = a.room /\ rooms[i].capacity >= GetClassSize(a.class)

\* C2: every committed assignment (every occupied cell of the three ledgers and
\* every entry of the returned schedule) names a room whose capacity is at least
\* the size of the assigned class.
C2_RoomCapacity ==
    /\ \A a \in LedgerAssignments(class_schedule) : RoomLargeEnough(a)
    /\ \A a \in LedgerAssignments(teacher_schedule) : RoomLargeEnough(a)
    /\ \A a \in LedgerAssignments(room_schedule) : RoomLargeEnough(a)
    /\ \A i \in DOMAIN schedule : RoomLargeEnough(schedule[i])

\* An assignment is committed although the room list holds a room too small for its class.
C2_Witness ==
    /\ pc = "done"
    /\ \E i \in DOMAIN schedule, r \in DOMAIN rooms :
          rooms[r].capacity < GetClassSize(schedule[i].class)

\* No two entries of the course list have the same (name, class) pair.
DistinctCourses ==
    \A i, j \in DOMAIN courses : CourseKey(courses[i]) = CourseKey(courses[j]) => i = j

\* C3: at every point of the run, for every (course name, class) pair the
\* fulfilled-session count is at most the required frequency of the course.
C3_FulfilledAtMostRequired ==
    \A key \in DOMAIN course_sessions : course_sessions[key] <= RequiredSessions(key)

\* The statement of C3 for course lists without two entries of one (name, class) pair.
C3_DistinctCourses ==
    DistinctCourses => C3_FulfilledAtMostRequired

\* The 'Frequency Not Met' records that name a (course, class) pair.
FrequencyRecordsOf(key) ==
    {k \in RecordsOfType("Frequency Not Met") :
        conflicts[k].description[1] = key[1] /\ conflicts[k].description[2] = key[2]}

\* C4: the returned conflict list holds exactly one 'Frequency Not Met' record
\* for every (course, class) pair that was fulfilled less often than required,
\* reporting the fulfilled and the required count, and none for any other pair.
C4_FrequencyNotMet ==
    pc = "done" =>
        /\ \A key \in DOMAIN course_sessions :
              IF course_sessions[key] < RequiredSessions(key)
              THEN /\ Cardinality(FrequencyRecordsOf(key)) = 1
                   /\ \A k \in FrequencyRecordsOf(key) :
                         /\ conflicts[k].description[3] = course_sessions[key]
                         /\ conflicts[k].description[4] = RequiredSessions(key)
              ELSE FrequencyRecordsOf(key) = {}
        /\ \A k \in RecordsOfType("Frequency Not Met") :
              <<conflicts[k].description[1], conflicts[k].description[2]>>
                  \in DOMAIN course_sessions

\* A returned conflict list with a record for one pair and none for a pair that was met.
C4_Witness ==
    /\ pc = "done"
    /\ RecordsOfType("Frequency Not Met") # {}
    /\ \E key \in DOMAIN course_sessions : course_sessions[key] = RequiredSessions(key)

\* On the given day some slot and some room of sufficient capacity have the
\* class, the teacher and the room of the course free at once.
FreeCombination(course, day) ==
    \E t \in Range(time_slots), i \in DOMAIN rooms :
        /\ rooms[i].capacity >= GetClassSize(course.class)
        /\ room_schedule[rooms[i].name][day][t] = None
        /\ course.class \in DOMAIN class_schedule
        /\ class_schedule[course.class][day][t] = None
        /\ course.teacher \in DOMAIN teacher_schedule
        /\ teacher_schedule[course.teacher][day][t] = None

\* The step that records the current session as unscheduled.
UnscheduledStep ==
    /\ pc = "sessions"
    /\ conflicts' = Append(conflicts, UnscheduledRecord(CurrentCourse))

\* C5 as stated: a session is recorded as unscheduled only if no weekday at all,
\* the weekdays already used by the course included, has a free combination.
C5_AvoidanceNeverExhausts ==
    [][UnscheduledStep =>
         \A day \in Range(Days) : ~FreeCombination(CurrentCourse, day)]_vars

\* C5 amended: a session is recorded as unscheduled only if no weekday that the
\* search tries has a free combination: the weekdays not yet used by the course,
\* or all weekdays once the course has used every one of them.
C5_NoFreeCombinationOnTriedDays ==
    [][UnscheduledStep =>
         \A day \in Range(Days) :
             (day \notin assigned_days \/ Cardinality(assigned_days) = Len(Days))
                 => ~FreeCombination(CurrentCourse, day)]_vars

\* A session of the current course has been recorded as unscheduled while a
\* weekday already used by the course still has a free combination.
C5_Witness ==
    /\ pc \in {"sessions", "courses"}
    /\ course_index >= 1
    /\ conflicts # <<>>
    /\ conflicts[Len(conflicts)] = UnscheduledRecord(CurrentCourse)
    /\ \E day \in assigned_days : FreeCombination(CurrentCourse, day)

\* The 'Unscheduled Session' records that name a course.
UnscheduledRecordsOf(course) ==
    {k \in RecordsOfType("Unscheduled Session") :
        conflicts[k] = UnscheduledRecord(course)}

\* C6: in the returned conflict list the number of 'Unscheduled Session' records
\* naming a course equals its required frequency minus its fulfilled count.
C6_UnscheduledEqualsShortfall ==
    pc = "done" =>
        \A i \in DOMAIN courses :
            Cardinality(UnscheduledRecordsOf(courses[i])) =
                courses[i].frequency - course_sessions[CourseKey(courses[i])]

\* The statement of C6 for course lists without two entries of one (name, class) pair.
C6_DistinctCourses ==
    DistinctCourses => C6_UnscheduledEqualsShortfall

\* The grid parameters do not leave room for one period.
GridCannotFit == start_minutes + period_length > end_minutes

\* C7: when no period fits, the run stops with an error before any scheduling
\* attempt: no session is attempted and nothing is returned.
C7_ConfigurationError ==
    GridCannotFit => (pc # "done" /\ conflicts = <<>>)

\* C8: the slots have strictly increasing start times, consecutive slots do not
\* overlap and every slot lasts period_length minutes.
C8_SlotsOrdered ==
    /\ \A k \in DOMAIN time_slots :
          SlotEnd(time_slots[k]) - SlotStart(time_slots[k]) = period_length
    /\ \A k \in 1..(Len(time_slots) - 1) :
          /\ SlotStart(time_slots[k]) < SlotStart(time_slots[k + 1])
          /\ SlotEnd(time_slots[k]) <= SlotStart(time_slots[k + 1])

\* A finished grid whose slots cross an hour and a lunch.
C8_Witness ==
    /\ pc = "ready"
    /\ lunch_period = "After period 4"
    /\ Len(time_slots) >= 5

\* The start of the k-th slot according to C9.
ExpectedStart(k) ==
    start_minutes + (k - 1) * (period_length + break_length)
        + (IF \/ lunch_period = "After period 3" /\ k > 3
              \/ lunch_period = "After period 4" /\ k > 4
           THEN lunch_duration - break_length ELSE 0)

\* C9: the k-th slot starts at ExpectedStart(k) and ends period_length later, no
\* slot ends after end_minutes, and when the loop has ended one more slot would
\* not fit.
C9_SlotTimes ==
    /\ \A k \in DOMAIN time_slots :
          /\ SlotStart(time_slots[k]) = ExpectedStart(k)
          /\ SlotEnd(time_slots[k]) = ExpectedStart(k) + period_length
          /\ SlotEnd(time_slots[k]) <= end_minutes
    /\ pc = "ready" => ExpectedStart(Len(time_slots) + 1) + period_length > end_minutes

\* A finished grid with slots after a lunch that is shorter than the break.
C9_Witness ==
    /\ pc = "ready"
    /\ lunch_period = "After period 3"
    /\ lunch_duration < break_length
    /\ Len(time_slots) >= 5

\* The input of C10: one course of frequency at most 5 whose teacher and class
\* are listed, a room that is large enough and a grid with a slot.
OneCourseInput ==
    /\ Len(courses) = 1
    /\ courses[1].frequency <= Len(Days)
    /\ courses[1].teacher \in Range(teachers)
    /\ courses[1].class \in Range(NamesOf(classes))
    /\ \E i \in DOMAIN rooms : rooms[i].capacity >= GetClassSize(courses[1].class)
    /\ Len(time_slots) >= 1

\* C10: for such an input the run returns, with every session fulfilled, no
\* conflict, and as many assignments as sessions on pairwise distinct weekdays.
C10_OneCourse ==
    OneCourseInput =>
        /\ pc # "KeyError"
        /\ pc = "done" =>
              /\ course_sessions[CourseKey(courses[1])] = courses[1].frequency
              /\ conflicts = <<>>
              /\ Len(schedule) = courses[1].frequency
              /\ \A i, j \in DOMAIN schedule : i # j => schedule[i].day # schedule[j].day

\* A returned schedule of one course of frequency 5 on a grid of two slots.
C10_Witness ==
    /\ pc = "done"
    /\ OneCourseInput
    /\ courses[1].frequency = Len(Days)
    /\ Len(time_slots) = 2

\* The sum of the frequencies of the entries of a course list.
RECURSIVE SumFrequencies(_)
SumFrequencies(cs) ==
    IF cs = <<>> THEN 0 ELSE Head(cs).frequency + SumFrequencies(Tail(cs))

\* The entries of the course list that an 'Unscheduled Session' record of the
\* course names: those of its name, class and teacher.
EntriesNamedLike(course) ==
    LET Alike(c) == UnscheduledRecord(c) = UnscheduledRecord(course)
    IN  SelectSeq(courses, Alike)

\* A listed class that no room of the room list can hold.
NoRoomFor(class_name) ==
    \E i \in DOMAIN classes :
        /\ classes[i].name = class_name
        /\ \A r \in DOMAIN rooms : rooms[r].capacity < classes[i].size

\* C11: when no room can hold a class, no cell of a ledger ever holds an
\* assignment of that class (so the courses of the other classes meet the ledgers
\* they would meet without it), the returned schedule has no assignment of that
\* class, and every required session of every course of that class is reported
\* by one 'Unscheduled Session' record.
C11_NoRoomNoSession ==
    \A c \in Range(NamesOf(classes)) :
        NoRoomFor(c) =>
            /\ \A a \in LedgerAssignments(class_schedule)
                          \cup LedgerAssignments(teacher_schedule)
                          \cup LedgerAssignments(room_schedule) : a.class # c
            /\ pc = "done" =>
                  /\ \A i \in DOMAIN schedule : schedule[i].class # c
                  /\ \A i \in DOMAIN courses :
                        courses[i].class = c =>
                            Cardinality(UnscheduledRecordsOf(courses[i])) =
                                SumFrequencies(EntriesNamedLike(courses[i]))

\* A returned schedule with assignments of one class while no room can hold the
\* class of another course.
C11_Witness ==
    /\ pc = "done"
    /\ schedule # <<>>
    /\ \E i \in DOMAIN courses : NoRoomFor(courses[i].class)

\* The number of (day, slot) cells of the week.
CellsPerWeek == Len(Days) * Len(time_slots)

\* The sum of the tally over a set of (name, class) keys.
RECURSIVE SumSessions(_)
SumSessions(keys) ==
    IF keys = {} THEN 0
    ELSE LET key == CHOOSE k \in keys : TRUE
         IN  course_sessions[key] + SumSessions(keys \ {key})

\* The sessions fulfilled for the courses of a class, and for all courses.
FulfilledOfClass(c) == SumSessions({key \in DOMAIN course_sessions : key[2] = c})
TotalFulfilled == SumSessions(DOMAIN course_sessions)

\* The sessions the course list requires of a class and of a teacher.
RequiredOfClass(c) ==
    LET Of(course) == course.class = c IN SumFrequencies(SelectSeq(courses, Of))
RequiredOfTeacher(t) ==
    LET Of(course) == course.teacher = t IN SumFrequencies(SelectSeq(courses, Of))

\* The assignments of a teacher that the class ledger holds.
AssignmentsOfTeacher(t) == {a \in LedgerAssignments(class_schedule) : a.teacher = t}

\* C12: whatever the demand, every commit has filled a cell of its own in each
\* of the three ledgers, the sessions fulfilled for a class and the assignments
\* of a teacher never exceed the 5 x slots-per-day cells of the week, and the
\* returned conflict list reports every required session that was not fulfilled
\* as 'Unscheduled Session', every course that fell short as 'Frequency Not
\* Met', and holds no 'Teacher Conflict' and no 'Room Conflict' record.
C12_OverDemand ==
    pc \in {"courses", "sessions", "done"} =>
        /\ TotalFulfilled = Cardinality(LedgerAssignments(class_schedule))
        /\ TotalFulfilled = Cardinality(LedgerAssignments(teacher_schedule))
        /\ TotalFulfilled = Cardinality(LedgerAssignments(room_schedule))
        /\ \A c \in Range(NamesOf(classes)) : FulfilledOfClass(c) <= CellsPerWeek
        /\ \A t \in Range(teachers) : Cardinality(AssignmentsOfTeacher(t)) <= CellsPerWeek
        /\ pc = "done" =>
              /\ Len(schedule) = TotalFulfilled
              /\ Cardinality(RecordsOfType("Unscheduled Session")) =
                     SumFrequencies(courses) - TotalFulfilled
              /\ \A key \in DOMAIN course_sessions :
                     course_sessions[key] < RequiredSessions(key) =>
                         FrequencyRecordsOf(key) # {}
              /\ RecordsOfType("Teacher Conflict") = {}
              /\ RecordsOfType("Room Conflict") = {}

\* A returned schedule for a class whose courses ask for more sessions than the
\* week has cells and a teacher whose courses do too, every cell of the teacher
\* taken.
C12_Witness ==
    /\ pc = "done"
    /\ Len(time_slots) >= 1
    /\ \E c \in Range(NamesOf(classes)) : RequiredOfClass(c) > CellsPerWeek
    /\ \E t \in Range(teachers) :
          /\ RequiredOfTeacher(t) > CellsPerWeek
          /\ Cardinality(AssignmentsOfTeacher(t)) = CellsPerWeek

\* Every course names a teacher of the teacher list and a class of the class list.
ListedNames ==
    \A i \in DOMAIN courses :
        /\ courses[i].teacher \in Range(teachers)
        /\ courses[i].class \in Range(NamesOf(classes))

\* C13: generate_schedule never raises: no run ends in an exception, whatever
\* teacher and class names the courses hold.
C13_NeverRaises ==
    pc # "KeyError"

\* The statement of C13 for course lists that name listed teachers and classes only.
C13_ListedNamesNeverRaise ==
    ListedNames => C13_NeverRaises

\* No cell of the three ledgers holds an assignment.
LedgersEmpty ==
    /\ LedgerAssignments(class_schedule) = {}
    /\ LedgerAssignments(teacher_schedule) = {}
    /\ LedgerAssignments(room_schedule) = {}

\* C14: a second call of generate_schedule on the same instance starts from
\* all-empty ledgers, and the schedule it returns holds the assignments
\* committed during that call only.
C14_NoCrossRunState ==
    calls >= 2 =>
        /\ (pc = "courses" /\ course_index = 0) => LedgersEmpty
        /\ pc = "done" => Len(schedule) = TotalFulfilled

\* The run has ended: generate_schedule has returned or raised.
Ended == pc \in {"done", "KeyError"}

\* What is left to do: the phase, then the minutes the grid loop may still fill
\* or the courses the course loop has not begun, then the sessions the session
\* loop has not attempted.
Variant ==
    CASE pc = "grid" ->
            <<3, IF SlotFits(current_minutes)
                 THEN end_minutes - current_minutes - period_length + 1 ELSE 0, 0>>
      [] pc = "ready" -> <<2, 0, 0>>
      [] pc = "courses" -> <<1, Len(sorted_courses) - course_index, 0>>
      [] pc = "sessions" ->
            <<1, Len(sorted_courses) - course_index,
                 CurrentCourse.frequency - session_index>>
      [] OTHER -> <<0, 0, 0>>

\* The lexicographic order on triples of naturals.
LexLess(a, b) ==
    \/ a[1] < b[1]
    \/ a[1] = b[1] /\ a[2] < b[2]
    \/ a[1] = b[1] /\ a[2] = b[2] /\ a[3] < b[3]

\* One iteration of the session loop.
AttemptStep == pc = "sessions" /\ session_index' # session_index

\* One iteration of the session loop commits the session or records it as unscheduled.
CommitsOrRecords ==
    \/ /\ course_sessions' =
             [course_sessions EXCEPT ![CourseKey(CurrentCourse)] = @ + 1]
       /\ conflicts' = conflicts
    \/ /\ course_sessions' = course_sessions
       /\ conflicts' = Append(conflicts, UnscheduledRecord(CurrentCourse))

\* Every step of the constructor and of generate_schedule lowers the variant,
\* which stays a triple of naturals, and a run that has not ended can step.
Terminates ==
    /\ [](\A k \in 1..3 : Variant[k] >= 0)
    /\ [](Ended \/ ENABLED NextWhole)
    /\ [][LexLess(Variant', Variant)]_vars

\* C15: the grid loop and generate_schedule terminate, and every session
\* attempt ends the iteration by committing the session or by recording it as
\* unscheduled.
C15_TerminatesCommittingOrRecording ==
    /\ Terminates
    /\ [][pc = "sessions" => (AttemptStep /\ CommitsOrRecords)]_vars

\* The statement of C15 with the attempts that raise (C13) set apart: the run
\* terminates, and an attempt that does not raise commits or records.
C15_TerminatesOrRaises ==
    /\ Terminates
    /\ [][pc = "sessions" => (pc' = "KeyError" \/ (AttemptStep /\ CommitsOrRecords))]_vars

\* The assignments held by the cells of a ledger of an instance.
AssignmentsIn(ledger) ==
    {ledger[n][d][t] : n \in DOMAIN ledger, d \in Range(Days), t \in Range(time_slots)}
        \ {None}

\* The sum of a tally over a set of its keys.
RECURSIVE SumTally(_, _)
SumTally(tally, keys) ==
    IF keys = {} THEN 0
    ELSE LET key == CHOOSE k \in keys : TRUE
         IN  tally[key] + SumTally(tally, keys \ {key})

\* The ledgers of an instance hold the commits of its own run and no other,
\* and what it has returned is what it returns when it runs alone on one course:
\* every session on a weekday of its own and no conflict when a room can hold
\* the class, no assignment and every session reported when none can.
RunsAsAlone(inst) ==
    LET fulfilled == SumTally(inst.course_sessions, DOMAIN inst.course_sessions)
    IN  /\ Cardinality(AssignmentsIn(inst.class_schedule)) = fulfilled
        /\ Cardinality(AssignmentsIn(inst.teacher_schedule)) = fulfilled
        /\ Cardinality(AssignmentsIn(inst.room_schedule)) = fulfilled
        /\ inst.pc = "done" =>
              /\ \A i, j \in DOMAIN inst.schedule :
                    i # j => inst.schedule[i].day # inst.schedule[j].day
              /\ IF NoRoomFor(courses[1].class)
                 THEN /\ inst.schedule = <<>>
                      /\ Len(inst.conflicts) = courses[1].frequency + 1
                 ELSE /\ Len(inst.schedule) = courses[1].frequency
                      /\ inst.conflicts = <<>>

\* C17: with the runs of two instances interleaved in any order, each instance
\* keeps ledgers that hold its own commits only and returns a result it can
\* return when it runs alone, without double-booking.
C17_InstancesIsolated ==
    /\ RunsAsAlone(Running)
    /\ RunsAsAlone(suspended)

\* Both instances are in the middle of their session loops, and each has
\* committed a session in the cell the other has committed one in.
C17_Witness ==
    /\ pc = "sessions"
    /\ suspended.pc = "sessions"
    /\ \E a \in AssignmentsIn(class_schedule), b \in AssignmentsIn(suspended.class_schedule) :
          SameCell(a, b)

\* No two entries of a stored list have the same name.
UniqueNames(list) ==
    \A i, j \in DOMAIN list : list[i].name = list[j].name => i = j

\* C18: no two stored teachers, no two stored rooms and no two stored classes
\* share a name, and no two stored courses share a (name, class) pair.
C18_StoredNamesUnique ==
    /\ UniqueNames(teachers_data)
    /\ UniqueNames(rooms_data)
    /\ UniqueNames(classes_data)
    /\ \A i, j \in DOMAIN courses_data :
          CourseKey(courses_data[i]) = CourseKey(courses_data[j]) => i = j

\* Course a ranks strictly before course b: higher frequency, or equal
\* frequency and smaller name.
RanksBefore(a, b) ==
    \/ a.frequency > b.frequency
    \/ a.frequency = b.frequency /\ NameRank(a.name) < NameRank(b.name)

\* The processing order holds the courses of the list, none after a course it
\* ranks before.
ProcessedInRankOrder ==
    pc \in {"courses", "sessions", "done"} =>
        /\ sorted_courses \in Perms(courses)
        /\ \A i, j \in DOMAIN sorted_courses :
              i < j => ~RanksBefore(sorted_courses[j], sorted_courses[i])

\* The course loop moves to the next course of the order, and only when every
\* session of the current course has been attempted.
NextCourseAfterAllSessions ==
    (pc \in {"courses", "sessions"} /\ course_index' # course_index) =>
        /\ course_index' = course_index + 1
        /\ course_index >= 1 => session_index = CurrentCourse.frequency

\* A session attempt is an attempt of the current course of the order.
AttemptsCurrentCourse ==
    AttemptStep =>
        /\ course_index' = course_index
        /\ session_index < CurrentCourse.frequency
        /\ session_index' = session_index + 1

\* No occupied cell of a ledger changes.
NeverDisplaced(ledger) ==
    \A n \in DOMAIN ledger, d \in Range(Days), t \in Range(time_slots) :
        ledger[n][d][t] # None => ledger'[n][d][t] = ledger[n][d][t]

\* C19: the courses are processed in order of descending frequency, ties by
\* ascending name; every session of a course is attempted before any session
\* of a later course, and a commit never changes a cell an earlier commit filled.
C19_ProcessingOrder ==
    /\ []ProcessedInRankOrder
    /\ [][/\ NextCourseAfterAllSessions
          /\ AttemptsCurrentCourse
          /\ NeverDisplaced(class_schedule)
          /\ NeverDisplaced(teacher_schedule)
          /\ NeverDisplaced(room_schedule)]_vars

\* The session loop of the second course of an order that differs from the
\* order of the course list, with a session of the first course committed.
C19_Witness ==
    /\ pc = "sessions"
    /\ course_index = 2
    /\ sorted_courses # courses
    /\ course_sessions[CourseKey(sorted_courses[1])] >= 1
    /\ ~LedgersEmpty

\* The weekdays on which the class ledger holds a session of a (name, class) pair.
WeekdaysOf(key) ==
    {a.day : a \in {b \in LedgerAssignments(class_schedule) :
                        b.course = key[1] /\ b.class = key[2]}}

\* C20: for every course the number of distinct weekdays carrying it equals
\* min(fulfilled sessions, 5): a session lands on a weekday the course already
\* uses only once the course has sessions on all 5 weekdays.
C20_DistinctWeekdays ==
    pc \in {"courses", "sessions", "done"} =>
        \A key \in DOMAIN course_sessions :
            Cardinality(WeekdaysOf(key)) =
                (IF course_sessions[key] < Len(Days) THEN course_sessions[key] ELSE Len(Days))

\* The statement of C20 for course lists without two entries of one (name, class) pair.
C20_DistinctCourses ==
    DistinctCourses => C20_DistinctWeekdays

\* Every cell of the class ledger that the step changes was empty, and so were
\* the cell of the teacher and the cell of the room that the assignment written
\* into it names.
WritesIntoEmptyCells ==
    \A c \in DOMAIN class_schedule, d \in Range(Days), t \in Range(time_slots) :
        class_schedule'[c][d][t] # class_schedule[c][d][t] =>
            LET a == class_schedule'[c][d][t]
            IN  /\ class_schedule[c][d][t] = None
                /\ a # None
                /\ teacher_schedule[a.teacher][d][t] = None
                /\ room_schedule[a.room][d][t] = None

\* An occupied cell of the ledger keeps its assignment.
KeepsOccupied(ledger_before, ledger_after) ==
    \A n \in DOMAIN ledger_before, d \in Range(Days), t \in Range(time_slots) :
        ledger_before[n][d][t] = None \/ ledger_after[n][d][t] = ledger_before[n][d][t]

\* C21: in a run on a fresh generator an assignment is written only when the
\* class cell, the teacher cell and the room cell of its (day, slot) are empty,
\* and a cell, once occupied, is neither overwritten nor cleared.
C21_AssignOnlyIntoEmptyCells ==
    [][/\ WritesIntoEmptyCells
       /\ KeepsOccupied(class_schedule, class_schedule')
       /\ KeepsOccupied(teacher_schedule, teacher_schedule')
       /\ KeepsOccupied(room_schedule, room_schedule')]_vars

\* A run that has committed a session of a second course of a teacher into
\* ledgers that hold sessions of the first.
C21_Witness ==
    /\ pc \in {"sessions", "courses"}
    /\ course_index = 2
    /\ sorted_courses[1].teacher = sorted_courses[2].teacher
    /\ course_sessions[CourseKey(sorted_courses[1])] >= 1
    /\ session_index >= 1
    /\ \E a \in LedgerAssignments(class_schedule) :
          a.course = sorted_courses[2].name /\ a.class = sorted_courses[2].class
             /\ a.class # sorted_courses[1].class

\* The step writes into a ledger.
LedgerWritten ==
    \/ class_schedule' # class_schedule
    \/ teacher_schedule' # teacher_schedule
    \/ room_schedule' # room_schedule

\* C22: a call of _assign_time_slot never changes a cell that holds an
\* assignment: a write goes into three empty cells or the call fails and leaves
\* the three ledgers as they were.
C22_OccupiedCellRefusesWrite ==
    [][(pc = "ready" /\ LedgerWritten) =>
          /\ WritesIntoEmptyCells
          /\ KeepsOccupied(class_schedule, class_schedule')
          /\ KeepsOccupied(teacher_schedule, teacher_schedule')
          /\ KeepsOccupied(room_schedule, room_schedule')]_vars

\* The classes whose entry of the class ledger at (day, slot) names the entity
\* in the given field.
ClassesNaming(field, name, d, t) ==
    {c \in DOMAIN class_schedule :
        class_schedule[c][d][t] # None /\ class_schedule[c][d][t][field] = name}

\* The records of a type that the conflict list holds for (entity, day, slot).
ConflictRecordsAt(type, name, d, t) ==
    {k \in RecordsOfType(type) :
        conflicts[k].day = d /\ conflicts[k].time = t /\ conflicts[k].description[1] = name}

\* The audit reports the entity at (day, slot) once, with all the classes, when
\* more than one class names it there, and not at all otherwise.
ReportedExactly(type, field, name, d, t) ==
    IF Cardinality(ClassesNaming(field, name, d, t)) > 1
    THEN /\ Cardinality(ConflictRecordsAt(type, name, d, t)) = 1
         /\ \A k \in ConflictRecordsAt(type, name, d, t) :
               /\ Range(conflicts[k].description[2]) = ClassesNaming(field, name, d, t)
               /\ Len(conflicts[k].description[2]) =
                      Cardinality(ClassesNaming(field, name, d, t))
    ELSE ConflictRecordsAt(type, name, d, t) = {}

\* C23: whatever the class ledger holds, double bookings included, the returned
\* conflict list has exactly one 'Teacher Conflict' record for every (teacher,
\* day, slot) that more than one class's entry names, exactly one 'Room
\* Conflict' record for every such (room, day, slot), each naming all those
\* classes, and no such record for any other (entity, day, slot).
C23_AuditReportsDoubleBookings ==
    pc = "done" =>
        /\ \A d \in Range(Days), t \in Range(time_slots) :
              /\ \A name \in Range(TeacherKeys) :
                    ReportedExactly("Teacher Conflict", "teacher", name, d, t)
              /\ \A name \in Range(RoomKeys) :
                    ReportedExactly("Room Conflict", "room", name, d, t)
        /\ \A k \in RecordsOfType("Teacher Conflict") :
              conflicts[k].description[1] \in Range(TeacherKeys)
        /\ \A k \in RecordsOfType("Room Conflict") :
              conflicts[k].description[1] \in Range(RoomKeys)

\* A returned conflict list for a class ledger in which two classes name one
\* teacher in different rooms at one (day, slot), a third entry at another.
C23_Witness ==
    /\ pc = "done"
    /\ RecordsOfType("Teacher Conflict") # {}
    /\ RecordsOfType("Room Conflict") = {}
    /\ Cardinality(LedgerAssignments(class_schedule)) >= 3

\* The placement loop has ended: the audit is what remains of the call.
PlacementEnded == pc = "courses" /\ course_index = Len(sorted_courses)

\* C24: from the end of the placement loop to the return the three ledgers and
\* the session tally do not change, and no step that appends a conflict record,
\* an 'Unscheduled Session' record during placement included, changes a ledger.
C24_ConflictsNeverMutateLedgers ==
    [][/\ PlacementEnded => UNCHANGED <<ledgerVars, course_sessions>>
       /\ (pc \in {"courses", "sessions"} /\ conflicts' # conflicts) =>
              UNCHANGED ledgerVars]_vars

\* A returned result with an 'Unscheduled Session' record, a 'Frequency Not
\* Met' record and occupied ledger cells.
C24_Witness ==
    /\ pc = "done"
    /\ RecordsOfType("Unscheduled Session") # {}
    /\ RecordsOfType("Frequency Not Met") # {}
    /\ ~LedgersEmpty

\* The entries of a list whose field differs from the value, in order.
RECURSIVE Others(_, _, _)
Others(list, field, value) ==
    IF list = <<>> THEN <<>>
    ELSE IF Head(list)[field] = value THEN Others(Tail(list), field, value)
    ELSE <<Head(list)>> \o Others(Tail(list), field, value)

\* C25: remove_class(c) leaves no class named c and no course of class c in
\* the store, and leaves the teacher store, the room store, the other classes
\* and the courses of the other classes as they were, in their order.
C25_RemoveClassFrame ==
    [][\A c \in ClassNames :
          remove_class(c) =>
              /\ \A i \in DOMAIN classes_data' : classes_data'[i].name # c
              /\ \A i \in DOMAIN courses_data' : courses_data'[i].class # c
              /\ classes_data' = Others(classes_data, "name", c)
              /\ courses_data' = Others(courses_data, "class", c)
              /\ teachers_data' = teachers_data
              /\ rooms_data' = rooms_data]_vars

\* A class has been removed with its course, which the session list of
\* courses still shows, while a course of another class, a teacher and a room
\* are still stored.
C25_Witness ==
    /\ \E i \in DOMAIN courses :
          /\ courses[i].class \notin Range(NamesOf(classes_data))
          /\ \A j \in DOMAIN courses_data : courses_data[j].class # courses[i].class
    /\ courses_data # <<>>
    /\ classes_data # <<>>
    /\ teachers_data # <<>>
    /\ rooms_data # <<>>

\* The names of the stored teachers and of the stored classes.
StoredTeacherNames == Range(NamesOf(teachers_data))
StoredClassNames == Range(NamesOf(classes_data))

\* C28: every stored course names a stored teacher and a stored class.
C28_CoursesReferToStoredEntities ==
    \A i \in DOMAIN courses_data :
        /\ courses_data[i].teacher \in StoredTeacherNames
        /\ courses_data[i].class \in StoredClassNames

\* The part of C28 about classes: every stored course names a stored class.
C28_CoursesReferToStoredClasses ==
    \A i \in DOMAIN courses_data : courses_data[i].class \in StoredClassNames

\* C29: the lists the app passes to ScheduleGenerator equal the stores.
C29_SessionListsEqualStores ==
    /\ teachers = teachers_data
    /\ rooms = rooms_data
    /\ classes = classes_data
    /\ courses = courses_data

\* The part of C29 about the lists other than the course list.
C29_EntityListsEqualStores ==
    /\ teachers = teachers_data
    /\ rooms = rooms_data
    /\ classes = classes_data

\* The assignment a holds the cell (d, t) of its class, of its teacher and of
\* its room, and names that day and that slot.
HeldInAllThree(a, d, t) ==
    /\ a.day = d
    /\ a.time = t
    /\ a.class \in DOMAIN class_schedule
    /\ class_schedule[a.class][d][t] = a
    /\ a.teacher \in DOMAIN teacher_schedule
    /\ teacher_schedule[a.teacher][d][t] = a
    /\ a.room \in DOMAIN room_schedule
    /\ room_schedule[a.room][d][t] = a

\* Every occupied cell of the ledger holds an assignment held in all three
\* ledgers, under the key the ledger files it under.
LedgerAgrees(ledger, field) ==
    \A n \in DOMAIN ledger, d \in Range(Days), t \in Range(time_slots) :
        ledger[n][d][t] # None =>
            /\ ledger[n][d][t][field] = n
            /\ HeldInAllThree(ledger[n][d][t], d, t)

\* C26: at every point of a run the three ledgers agree: an assignment held by
\* a cell of one ledger is held by the cells of the same (day, slot) of its
\* class, its teacher and its room, and names that day and slot.
C26_LedgersAgree ==
    pc \in {"ready", "courses", "sessions", "done", "KeyError"} =>
        /\ LedgerAgrees(class_schedule, "class")
        /\ LedgerAgrees(teacher_schedule, "teacher")
        /\ LedgerAgrees(room_schedule, "room")

\* Sessions of two classes committed in two rooms, the session loop running.
C26_Witness ==
    /\ pc = "sessions"
    /\ \E a, b \in LedgerAssignments(room_schedule) :
          a.room # b.room /\ a.class # b.class

\* The position of an element in a sequence without repetition.
PositionIn(seq, x) == CHOOSE i \in DOMAIN seq : seq[i] = x

\* Entry a comes before entry b in the order class, weekday, slot.
ComesBefore(a, b) ==
    LET ca == PositionIn(ClassKeys, a.class)
        cb == PositionIn(ClassKeys, b.class)
        da == PositionIn(Days, a.day)
        db == PositionIn(Days, b.day)
        ta == PositionIn(time_slots, a.time)
        tb == PositionIn(time_slots, b.time)
    IN  \/ ca < cb
        \/ ca = cb /\ da < db
        \/ ca = cb /\ da = db /\ ta < tb

\* The entries of the returned schedule for a (course name, class) pair.
ScheduleEntriesOf(key) ==
    {i \in DOMAIN schedule : schedule[i].course = key[1] /\ schedule[i].class = key[2]}

\* C27: the returned schedule holds, for every (course name, class) pair, as
\* many assignments as sessions were fulfilled for it and no other assignment,
\* and is ordered by class in class-list order, then by weekday from Monday to
\* Friday, then by slot.
C27_ScheduleIsTheCommits ==
    pc = "done" =>
        /\ \A key \in DOMAIN course_sessions :
              Cardinality(ScheduleEntriesOf(key)) = course_sessions[key]
        /\ \A i \in DOMAIN schedule :
              <<schedule[i].course, schedule[i].class>> \in DOMAIN course_sessions
        /\ \A i, j \in DOMAIN schedule :
              i < j => ComesBefore(schedule[i], schedule[j])

\* A returned schedule with sessions of two classes, the first class of the
\* list on a later weekday than the second.
C27_Witness ==
    /\ pc = "done"
    /\ \E i, j \in DOMAIN schedule :
          /\ i < j
          /\ schedule[i].class # schedule[j].class
          /\ PositionIn(Days, schedule[i].day) > PositionIn(Days, schedule[j].day)

====
